---- MODULE Spec2Model ----
(***************************************************************************)
(* State-machine model of the legal-discovery monitoring console:          *)
(*   - LegalDiscoveryInterface (legal-discovery-interface.tsx): the        *)
(*     step/substep tree built by processStream, in its two variants       *)
(*     (lines 15-226, "first"; lines 253-550, "tree");                     *)
(*   - ChatInterface / FeedbackButtons (chat-interface.tsx,                *)
(*     feedback-buttons.tsx): transcript, feedback buttons, commands;      *)
(*   - CategoryProgress / ThinkingSteps: the derived progress figures.     *)
(*                                                                         *)
(* Strings that the code inspects (includes, split, trim) are modelled as  *)
(* sequences of tokens: a token is a word or a single blank " ".           *)
(***************************************************************************)
EXTENDS Integers, Sequences, FiniteSets, TLC

VARIABLES
    \* ---- LegalDiscoveryInterface (useState, lines 16-20 / 254-259)
    variant,              \* which variant of the component is mounted: "first" | "tree"
    caseBackground,       \* text of the case-background box (token sequence)
    isRunning,            \* BOOLEAN
    error,                \* Null or the error text
    finalResult,          \* Null or the data of the complete message
    steps,                \* sequence of [title, status, substeps]
    initialAgentResponse, \* tree variant only
    active,               \* number of handleSubmit calls suspended in their for-await loop
    nEvents,              \* number of stream messages processed so far (model bound)
    termSeen,             \* history: a complete/error message was processed since the last (re)start
    fedLog,               \* history: messages fed so far in the fixed phase-segmentation scenario
    \* ---- ChatInterface (useState / hooks, chat-interface.tsx lines 32-42)
    messages,             \* transcript: sequence of [type, content, metadata]
    input,                \* text of the chat input box
    isConnected,          \* BOOLEAN
    analysisResults,      \* NoResults (null) or the record stored on analysis_completed
    analysisId,           \* caseData?.analyses?.[0]?.id: Null or an id
    workflowStatus,       \* data of useAnalysisWorkflow: NoWorkflow or [status, feedback_requested]
    wsState,              \* the WebSocket of the effect: "connecting" | "open" | "closed"
    wsSent,               \* frames sent with ws.send on that WebSocket, in order
    fb,                   \* FeedbackButtons state kept per rendered message
    inflight,             \* handlers suspended in an await, each with the mutation it issued
    decided,              \* history: messages whose FeedbackButtons have issued a feedback command
    closing,              \* WebSockets the effect's cleanup has closed whose close event is still to come
    \* ---- CategoryProgress / ThinkingSteps (props and what they render)
    plan,                 \* the categories with the status the backend reports for each
    pgView,               \* what the two components render for plan
    lastAct               \* history: the handler that ran last and what it did

segVars == <<variant, caseBackground, isRunning, error, finalResult, steps,
             initialAgentResponse, active, nEvents, termSeen, fedLog>>

chatVars == <<messages, input, isConnected, analysisResults, analysisId, workflowStatus,
              wsState, wsSent, fb, inflight, decided>>

progVars == <<plan, pgView>>

connVars == <<closing>>

vars == <<segVars, chatVars, progVars, connVars, lastAct>>

Null == "null"

\* what lastAct records: the handler, its outcome, and the message index it acted on
Act(op, out, src) == [op |-> op, out |-> out, src |-> src]

\* ---------------------------------------------------------------- bounds
MaxEvents == 3      \* stream messages processed in one behaviour
MaxStreams == 2     \* handleSubmit calls that may be suspended at once

\* ---------------------------------------------------------------- strings
Blank == " "

\* String.prototype.includes(word), on token sequences
Includes(text, word) == \E i \in 1..Len(text) : text[i] = word

\* message.message.split(' ')[2]: the third blank-separated piece, undefined if absent
SplitThird(text) == IF Len(text) >= 3 THEN text[3] ELSE "undefined"

RECURSIVE TrimStart(_)
TrimStart(text) ==
    IF text = <<>> THEN <<>>
    ELSE IF Head(text) = Blank THEN TrimStart(Tail(text))
    ELSE text

RECURSIVE TrimEnd(_)
TrimEnd(text) ==
    IF text = <<>> THEN <<>>
    ELSE IF text[Len(text)] = Blank THEN TrimEnd(SubSeq(text, 1, Len(text) - 1))
    ELSE text

\* variation: the text is tested as typed, without trim()
Trim_AsTyped(text) == text

\* String.prototype.trim()
Trim(text) == TrimEnd(TrimStart(text))

\* JavaScript truthiness of a string: "" is falsy
Truthy(text) == text # <<>>

\* ---------------------------------------------------------------- stream messages
Round1a == <<"Round", "1:", "a">>
Round1b == <<"Round", "1:", "b">>
Round2a == <<"Round", "2:", "a">>
Round2b == <<"Round", "2:", "b">>
Compiling == <<"Compiling", "outline">>
Note == <<"note">>
Note2 == <<"other", "note">>

Msg(t, x) == [type |-> t, message |-> x]

\* The messages the stream may deliver in the general model.
SegEvents ==
    { Msg("agent_intro", Note),
      Msg("insight", Note),
      Msg("custom", Round1a),
      Msg("research_progress", Round1a),
      Msg("research_progress", Note),
      Msg("research_progress", Compiling),
      Msg("final_strategy", Compiling),
      Msg("final_strategy", Note),
      Msg("complete", Note),
      Msg("error", Note) }

\* message.data || null
DataOf(m) == IF m.type = "complete" THEN "result" ELSE Null

\* ---------------------------------------------------------------- steps
NewStep(title) == [title |-> title, status |-> "running", substeps |-> <<>>]

SubStepOf(m) == [type |-> m.type, text |-> m.message]

HasCurrent(prevSteps) == Len(prevSteps) > 0

CurrentStep(prevSteps) == prevSteps[Len(prevSteps)]

SetCurrentStatus(stepList, st) ==
    IF Len(stepList) > 0 THEN [stepList EXCEPT ![Len(stepList)].status = st] ELSE stepList

\* ---- first variant, lines 31-32
isNewResearchRound(m) == m.type = "research_progress" /\ Includes(m.message, "Round")

\* variation: the Compiling marker alone, whatever the type
isFinalPhase_AnyType(m) == Includes(m.message, "Compiling")

\* lines 32 / 280
isFinalPhase(m) == m.type = "final_strategy" /\ Includes(m.message, "Compiling")

\* ---- tree variant, line 279
isResearchPhase(m) == m.type = "research_progress" /\ Includes(m.message, "Round")

\* first variant, line 37
ShouldCreateFirst(prevSteps, m) ==
    ~HasCurrent(prevSteps) \/ isNewResearchRound(m) \/ isFinalPhase(m)

\* first variant, lines 42-44
TitleFirst(m) ==
    IF isFinalPhase(m) THEN <<"Generating Deposition Outline">>
    ELSE IF isNewResearchRound(m) THEN <<"Research Round", SplitThird(m.message)>>
    ELSE <<"Agent Initializing...">>

\* variation: a phase message opens a step whatever the current title is
ShouldCreateTree_NoTitleCheck(prevSteps, m) ==
    \/ ~HasCurrent(prevSteps)
    \/ isFinalPhase(m)
    \/ isResearchPhase(m)

\* tree variant, lines 285-287
ShouldCreateTree(prevSteps, m) ==
    \/ ~HasCurrent(prevSteps)
    \/ (isFinalPhase(m) /\ CurrentStep(prevSteps).title # <<"Generating Deposition Outline">>)
    \/ (isResearchPhase(m) /\ CurrentStep(prevSteps).title # <<"Research Phase">>)

\* variation: every new step gets the default title
TitleTree_Default(m) == <<"Investigation Phase">>

\* tree variant, lines 293-295
TitleTree(m) ==
    IF isFinalPhase(m) THEN <<"Generating Deposition Outline">>
    ELSE IF isResearchPhase(m) THEN <<"Research Phase">>
    ELSE <<"Investigation Phase">>

\* variation: no look-up among the substeps already recorded
isDuplicate_NoLookup(currentStep, m) == FALSE

\* tree variant, lines 309-311
isDuplicate(currentStep, m) ==
    \E i \in 1..Len(currentStep.substeps) :
        /\ currentStep.substeps[i].type = m.type
        /\ currentStep.substeps[i].text = m.message

\* the push with the superseded step left in the status it had
PushStep_KeepingStatus(prevSteps, title) == Append(prevSteps, NewStep(title))
\* the push with the new step taking the place of the list
PushStep_Replacing(prevSteps, title) == <<NewStep(title)>>
\* lines 38-49 / 289-304: supersede the current step and push the new one
PushStep(prevSteps, title) ==
    Append(SetCurrentStatus(prevSteps, "completed"), NewStep(title))

\* lines 54-62: the first variant appends unconditionally
AppendSubStepFirst(stepList, m) ==
    [stepList EXCEPT ![Len(stepList)].substeps = Append(@, SubStepOf(m))]

\* lines 307-321: the tree variant appends unless the substep is already there
AppendSubStepTree(stepList, m) ==
    IF isDuplicate(CurrentStep(stepList), m) THEN stepList
    ELSE [stepList EXCEPT ![Len(stepList)].substeps = Append(@, SubStepOf(m))]

\* lines 67-77 / 323-333: completion or error flips the current step's status
FinishStatus(stepList, m) ==
    IF m.type = "complete" THEN SetCurrentStatus(stepList, "completed")
    ELSE IF m.type = "error" THEN SetCurrentStatus(stepList, "error")
    ELSE stepList

\* The setSteps updater of the first variant, lines 25-80
StepsAfterFirst(prevSteps, m) ==
    FinishStatus(
        IF ShouldCreateFirst(prevSteps, m) THEN PushStep(prevSteps, TitleFirst(m))
        ELSE AppendSubStepFirst(prevSteps, m),
        m)

\* the updater with the creating message also filed under the step it opened
StepsAfterTree_FilingTrigger(prevSteps, m) ==
    FinishStatus(
        AppendSubStepTree(
            IF ShouldCreateTree(prevSteps, m) THEN PushStep(prevSteps, TitleTree(m))
            ELSE prevSteps, m),
        m)
\* The setSteps updater of the tree variant, lines 274-336
StepsAfterTree(prevSteps, m) ==
    FinishStatus(
        IF ShouldCreateTree(prevSteps, m) THEN PushStep(prevSteps, TitleTree(m))
        ELSE AppendSubStepTree(prevSteps, m),
        m)

ShouldCreate(prevSteps, m) ==
    IF variant = "first" THEN ShouldCreateFirst(prevSteps, m) ELSE ShouldCreateTree(prevSteps, m)

\* processStream, lines 22-81 (first) and 267-337 (tree)
processStream(m) ==
    IF variant = "tree" /\ m.type = "agent_intro"
    THEN /\ initialAgentResponse' = m.message
         /\ UNCHANGED <<steps, finalResult, error, isRunning, termSeen>>
         /\ lastAct' = Act("processStream", "intro", 0)
    ELSE /\ steps' = IF variant = "first" THEN StepsAfterFirst(steps, m)
                     ELSE StepsAfterTree(steps, m)
         /\ finalResult' = IF m.type = "complete" THEN DataOf(m) ELSE finalResult
         /\ error' = IF m.type = "error" THEN m.message ELSE error
         /\ isRunning' = IF m.type \in {"complete", "error"} THEN FALSE ELSE isRunning
         /\ termSeen' = (termSeen \/ m.type \in {"complete", "error"})
         /\ lastAct' = Act("processStream",
                            IF ShouldCreate(steps, m) THEN "created"
                            ELSE IF Len(steps'[Len(steps')].substeps)
                                    = Len(steps[Len(steps)].substeps) THEN "duplicate"
                            ELSE "appended", 0)
         /\ UNCHANGED initialAgentResponse

\* ---------------------------------------------------------------- handlers
CaseTexts == { <<>>, <<Blank>>, <<"facts">> }

\* onChange of the case-background Textarea (disabled while running), lines 137-139 / 405-407
SetCaseBackground(t) ==
    /\ UNCHANGED <<chatVars, progVars, connVars>>
    /\ ~isRunning
    /\ t # caseBackground
    /\ caseBackground' = t
    /\ lastAct' = Act("setCaseBackground", "set", 0)
    /\ UNCHANGED <<variant, isRunning, error, finalResult, steps, initialAgentResponse,
                   active, nEvents, termSeen, fedLog>>

InitialSteps == IF variant = "first" THEN <<NewStep(<<"Initial Investigation">>)>> ELSE <<>>

\* handleSubmit up to its first await, lines 83-99 / 339-355.  The button is
\* disabled while isRunning or when the trimmed text is empty (lines 142 / 414);
\* caseBackgroundSchema is not part of the sources, so validation may fail or pass.
HandleSubmit(valid) ==
    /\ UNCHANGED <<chatVars, progVars, connVars>>
    /\ ~isRunning
    /\ Truthy(Trim(caseBackground))
    /\ IF ~valid
       THEN /\ error' = <<"validation">>
            /\ lastAct' = Act("handleSubmit", "invalid", 0)
            /\ UNCHANGED <<variant, caseBackground, isRunning, finalResult, steps,
                           initialAgentResponse, active, nEvents, termSeen, fedLog>>
       ELSE /\ active < MaxStreams
            /\ isRunning' = TRUE
            /\ error' = Null
            /\ finalResult' = Null
            /\ steps' = InitialSteps
            /\ initialAgentResponse' = <<>>
            /\ active' = active + 1
            /\ termSeen' = FALSE
            /\ lastAct' = Act("handleSubmit", "started", 0)
            /\ UNCHANGED <<variant, caseBackground, nEvents, fedLog>>

\* one iteration of the for-await loop, lines 99-101 / 355-357
StreamMessage(m) ==
    /\ UNCHANGED <<chatVars, progVars, connVars>>
    /\ active > 0
    /\ nEvents < MaxEvents
    /\ nEvents' = nEvents + 1
    /\ processStream(m)
    /\ UNCHANGED <<variant, caseBackground, active, fedLog>>

\* the stream ends: the loop exits through finally, lines 110-112 / 366-368
StreamEnd ==
    /\ UNCHANGED <<chatVars, progVars, connVars>>
    /\ active > 0
    /\ active' = active - 1
    /\ isRunning' = FALSE
    /\ lastAct' = Act("streamEnd", "done", 0)
    /\ UNCHANGED <<variant, caseBackground, error, finalResult, steps,
                   initialAgentResponse, nEvents, termSeen, fedLog>>

\* the stream throws: catch and finally, lines 102-112 / 358-368
StreamThrow ==
    /\ UNCHANGED <<chatVars, progVars, connVars>>
    /\ active > 0
    /\ active' = active - 1
    /\ error' = <<"stream", "failed">>
    /\ steps' = SetCurrentStatus(steps, "error")
    /\ isRunning' = FALSE
    /\ lastAct' = Act("streamThrow", "error", 0)
    /\ UNCHANGED <<variant, caseBackground, finalResult, initialAgentResponse,
                   nEvents, termSeen, fedLog>>

\* handleReset, lines 115-121 / 371-378; the button is rendered when there are
\* steps or an error and disabled while isRunning (lines 145-149 / 420-429)
HandleReset ==
    /\ UNCHANGED <<chatVars, progVars, connVars>>
    /\ (Len(steps) > 0 \/ error # Null)
    /\ ~isRunning
    /\ isRunning' = FALSE
    /\ error' = Null
    /\ finalResult' = Null
    /\ steps' = <<>>
    /\ initialAgentResponse' = <<>>
    /\ caseBackground' = <<>>
    /\ termSeen' = FALSE
    /\ lastAct' = Act("handleReset", "reset", 0)
    /\ UNCHANGED <<variant, active, nEvents, fedLog>>

\* ================================================================ ChatInterface
MaxMessages == 2    \* transcript length explored

\* an inbound update (the parsed frame); an absent string field is the empty text
Upd(type, message, categories, total, fa, completed, dq) ==
    [type |-> type, message |-> message, categories |-> categories,
     total_categories |-> total, final_analysis |-> fa,
     completed_categories |-> completed, deposition_questions |-> dq]

\* metadata of a message built locally (no metadata field)
NoMeta == Upd("none", <<>>, <<>>, "undefined", <<>>, <<>>, Null)

ChatEvents ==
    { Upd("plan_generated", <<>>, <<>>, "2", <<>>, <<>>, Null),
      Upd("feedback_requested", <<"Review", "plan">>, <<"A", "B">>, "undefined", <<>>, <<>>, Null),
      Upd("category_completed", <<>>, <<"A">>, "undefined", <<>>, <<>>, Null),
      Upd("deposition_generated", <<>>, <<>>, "undefined", <<>>, <<>>, Null),
      Upd("analysis_completed", <<>>, <<>>, "undefined", <<"final", "text">>, <<"A", "B">>, Null),
      Upd("analysis_completed", <<>>, <<>>, "undefined", <<>>, <<>>, "str"),
      Upd("progress_update", <<"working">>, <<>>, "undefined", <<>>, <<>>, Null),
      Upd("progress_update", <<>>, <<>>, "undefined", <<>>, <<>>, Null),
      Upd("error", <<"boom">>, <<>>, "undefined", <<>>, <<>>, Null),
      Upd("heartbeat", <<>>, <<>>, "undefined", <<>>, <<>>, Null),
      Upd("custom", <<"hi">>, <<>>, "undefined", <<>>, <<>>, Null) }

NumStr(n) == CASE n = 0 -> "0" [] n = 1 -> "1" [] n = 2 -> "2" [] n = 3 -> "3" [] OTHER -> "many"

\* Array.prototype.join(', ')
RECURSIVE Join(_)
Join(names) ==
    IF names = <<>> THEN <<>>
    ELSE IF Len(names) = 1 THEN names
    ELSE <<Head(names), ", ">> \o Join(Tail(names))

\* needle occurs in hay as a contiguous run of tokens (String.prototype.includes)
IsSubSeq(needle, hay) ==
    \E i \in 0..(Len(hay) - Len(needle)) : SubSeq(hay, i + 1, i + Len(needle)) = needle

\* variation: a summary line in place of the analysis text
analysisContent_SummaryOnly(update) == <<"Analysis completed.">>

\* line 108: update.final_analysis || 'Analysis completed but no content received.'
analysisContent(update) ==
    IF Truthy(update.final_analysis) THEN update.final_analysis
    ELSE <<"Analysis completed but no content received.">>

\* line 109: update.completed_categories?.length || 0
completedCount(update) == Len(update.completed_categories)

\* lines 123-127: the deposition questions, when present, follow the analysis
depositionPart(update) ==
    IF update.deposition_questions = Null THEN <<>>
    ELSE <<"Deposition Questions:", update.deposition_questions>>

\* lines 89-151: the content template per update type
ContentOf(update) ==
    CASE update.type = "plan_generated" ->
            <<"Analysis plan generated with", update.total_categories, "categories.">>
      [] update.type = "feedback_requested" -> update.message
      [] update.type = "category_completed" ->
            <<"Completed analysis for:">> \o Join(update.categories)
      [] update.type = "deposition_generated" ->
            <<"Deposition questions have been generated.">>
      [] update.type = "analysis_completed" ->
            <<"Legal Analysis Complete!", "Categories Analyzed:", NumStr(completedCount(update)),
              "Analysis Results:">> \o analysisContent(update) \o depositionPart(update)
      [] update.type = "progress_update" -> update.message
      [] update.type = "error" -> <<"Error:">> \o update.message
      [] OTHER -> IF Truthy(update.message) THEN <<"Workflow update:", update.type>> ELSE <<>>

\* lines 86-151: the role given to the message
RoleOf(update) == IF update.type = "analysis_completed" THEN "assistant" ELSE "system"

KnownTypes == {"plan_generated", "feedback_requested", "category_completed",
               "deposition_generated", "analysis_completed", "progress_update", "error"}

\* lines 87, 131-150: progress_update and unknown types need a message
shouldCreateMessage(update) ==
    IF update.type = "progress_update" \/ update.type \notin KnownTypes
    THEN Truthy(update.message)
    ELSE TRUE

\* variation: a message is built for every update
CreatesMessage_Always(update) == TRUE

\* line 153
CreatesMessage(update) == shouldCreateMessage(update) /\ Truthy(ContentOf(update))

ChatMessage(type, content, metadata) ==
    [type |-> type, content |-> content, metadata |-> metadata]

\* variation: the new message is put first
AppendMessage_Prepending(prev, newMessage) == <<newMessage>> \o prev

\* variation: the new message replaces the transcript
AppendMessage_Replacing(prev, newMessage) == <<newMessage>>

\* setMessages(prev => [...prev, newMessage]), lines 162, 176, 200, 244, 272
AppendMessage(prev, newMessage) == Append(prev, newMessage)

\* useState(null), line 36; present tells null from a stored record
NoResults ==
    [present |-> FALSE, completed_categories |-> <<>>, total_categories |-> 0,
     final_analysis |-> <<>>, deposition_questions |-> Null]

\* lines 113-118
ResultsOf(update) ==
    [present |-> TRUE, completed_categories |-> update.completed_categories,
     total_categories |-> completedCount(update),
     final_analysis |-> update.final_analysis,
     deposition_questions |-> update.deposition_questions]

\* useState of a FeedbackButtons instance, feedback-buttons.tsx lines 20-22
DefaultFB == [feedbackMode |-> "buttons", feedbackText |-> <<>>, isSubmitting |-> FALSE]

\* one FeedbackButtons state per message of the new transcript (keyed by message)
FbFor(newMessages, oldFb) ==
    [i \in 1..Len(newMessages) |-> IF i <= Len(oldFb) THEN oldFb[i] ELSE DefaultFB]

\* chat-interface.tsx line 392: the message renders FeedbackButtons
IsGate(message) == message.metadata.type = "feedback_requested"

\* room for one more message, counting those a suspended handler may still append
Room(n) == Len(messages) + Len(inflight) + n <= MaxMessages

\* handleWorkflowUpdate, chat-interface.tsx lines 81-164
handleWorkflowUpdate(update) ==
    /\ messages' = IF CreatesMessage(update)
                   THEN AppendMessage(messages,
                            ChatMessage(RoleOf(update), ContentOf(update), update))
                   ELSE messages
    /\ fb' = FbFor(messages', fb)
    /\ analysisResults' = IF update.type = "analysis_completed" THEN ResultsOf(update)
                          ELSE analysisResults
    /\ lastAct' = Act("handleWorkflowUpdate", update.type, 0)
    /\ UNCHANGED <<input, isConnected, analysisId, workflowStatus, wsState, wsSent, inflight, decided>>

\* ws.onopen, lines 57-64
WsOpen ==
    /\ UNCHANGED <<segVars, progVars, connVars>>
    /\ wsState = "connecting"
    /\ wsState' = "open"
    /\ wsSent' = Append(wsSent, [type |-> "subscribe_case", case_id |-> "case"])
    /\ isConnected' = TRUE
    /\ lastAct' = Act("other", "other", 0)
    /\ UNCHANGED <<messages, input, analysisResults, analysisId, workflowStatus, fb,
                   inflight, decided>>

\* ws.onmessage, lines 66-70
WsMessage(update) ==
    /\ UNCHANGED <<segVars, progVars, connVars>>
    /\ wsState = "open"
    /\ Room(1)
    /\ handleWorkflowUpdate(update)

\* ws.onmessage on a payload JSON.parse rejects, line 67: the handler throws
\* before handleWorkflowUpdate is called
WsBadFrame ==
    /\ UNCHANGED <<segVars, progVars, connVars>>
    /\ wsState = "open"
    /\ lastAct' = Act("onmessage", "SyntaxError", 0)
    /\ UNCHANGED chatVars

\* variation: onclose opens a new socket
WsClose_Reconnecting ==
    /\ UNCHANGED <<segVars, progVars, connVars>>
    /\ wsState \in {"connecting", "open"}
    /\ wsState' = "connecting"
    /\ wsSent' = wsSent
    /\ isConnected' = FALSE
    /\ lastAct' = Act("other", "other", 0)
    /\ UNCHANGED <<messages, input, analysisResults, analysisId, workflowStatus, fb,
                   inflight, decided>>

\* ws.onclose, lines 72-74
WsClose ==
    /\ UNCHANGED <<segVars, progVars, connVars>>
    /\ wsState \in {"connecting", "open"}
    /\ wsState' = "closed"
    /\ wsSent' = wsSent
    /\ isConnected' = FALSE
    /\ lastAct' = Act("other", "other", 0)
    /\ UNCHANGED <<messages, input, analysisResults, analysisId, workflowStatus, fb,
                   inflight, decided>>

MaxClosing == 2     \* replaced WebSockets whose close event is outstanding

\* The effect runs again (caseId changed, or the development re-mount of
\* reactStrictMode): the cleanup of lines 76-78 calls ws.close() on the socket
\* it created, whose handlers stay attached, and the body of lines 53-55
\* creates a new socket.  close() on a socket that has already closed does
\* nothing.  No state of the component is written.
EffectRerun ==
    /\ UNCHANGED <<segVars, progVars>>
    /\ IF wsState \in {"connecting", "open"}
       THEN closing < MaxClosing /\ closing' = closing + 1
       ELSE closing' = closing
    /\ wsState' = "connecting"
    /\ wsSent' = <<>>
    /\ lastAct' = Act("effect", "rerun", 0)
    /\ UNCHANGED <<messages, input, isConnected, analysisResults, analysisId,
                   workflowStatus, fb, inflight, decided>>

\* ws.onclose of a socket the cleanup closed, lines 72-74: its close event
\* arrives once the closing handshake is over.  (A socket that is closing
\* dispatches no message events any more, so its onmessage cannot run.)
StaleClose ==
    /\ UNCHANGED <<segVars, progVars>>
    /\ closing > 0
    /\ closing' = closing - 1
    /\ isConnected' = FALSE
    /\ lastAct' = Act("onclose", "stale", 0)
    /\ UNCHANGED <<messages, input, analysisResults, analysisId, workflowStatus,
                   wsState, wsSent, fb, inflight, decided>>
\* ---------------------------------------------------------------- user actions
InputTexts == { <<>>, <<Blank>>, <<"fix", Blank>>, <<"Start Analysis">> }

FbTexts == { <<>>, <<Blank>>, <<"narrow", "scope">> }

\* String.prototype.toLowerCase(), token by token
LowerToken(tok) == IF tok = "Start Analysis" THEN "start analysis" ELSE tok

ToLowerCase(text) == [i \in 1..Len(text) |-> LowerToken(text[i])]

\* the argument object of workflowControl.mutateAsync (startAnalysis.mutateAsync takes
\* the case id alone); a field the call does not pass is "undefined"
Command(caseId, action, feedback, approve) ==
    [caseId |-> caseId, action |-> action, feedback |-> feedback, approve |-> approve]

\* a handler suspended in its await: which handler, entered through which caller,
\* for the FeedbackButtons of which message, and the mutation it issued
Pending(kind, via, src, cmd) == [kind |-> kind, via |-> via, src |-> src, cmd |-> cmd]

RemoveAt(seq, k) == SubSeq(seq, 1, k - 1) \o SubSeq(seq, k + 1, Len(seq))

ApproveFlag(approved) == IF approved THEN "true" ELSE "false"

\* variation: the command leaves the approve flag out, as handleUserFeedback does
FeedbackCommand_NoApprove(id, feedback, approved) ==
    Command(id, "feedback", feedback, "undefined")

\* lines 258-263: the object handleFeedbackSubmit passes to mutateAsync
FeedbackCommand(id, feedback, approved) ==
    Command(id, "feedback", feedback, ApproveFlag(approved))

\* onChange of the chat Textarea, line 421 (and the empty-state button, line 365)
SetInput(t) ==
    /\ UNCHANGED <<segVars, progVars, connVars>>
    /\ t # input
    /\ input' = t
    /\ lastAct' = Act("other", "other", 0)
    /\ UNCHANGED <<messages, isConnected, analysisResults, analysisId, workflowStatus,
                   wsState, wsSent, fb, inflight, decided>>

\* variation: the typed text is recorded as a system message
UserMessage_AsSystem(text) == ChatMessage("system", text, NoMeta)

\* lines 169-174
UserMessage(text) == ChatMessage("user", text, NoMeta)

SystemMessage(text) == ChatMessage("system", text, NoMeta)

\* line 179
IsStartRequest(text) == Includes(ToLowerCase(text), "start analysis")

\* handleSendMessage up to its first await, lines 166-187 (Enter key or Send button),
\* with handleStartAnalysis (189-191) or handleUserFeedback (206-218) entered from it
handleSendMessage ==
    /\ UNCHANGED <<segVars, progVars, connVars>>
    /\ IF ~Truthy(Trim(input))
       THEN /\ lastAct' = Act("handleSendMessage", "rejected", 0)
            /\ UNCHANGED chatVars
       ELSE /\ Room(2)
            /\ messages' = AppendMessage(messages, UserMessage(input))
            /\ fb' = FbFor(messages', fb)
            /\ IF IsStartRequest(input)
               THEN /\ inflight' = Append(inflight,
                            Pending("start", "send", 0,
                                    Command("case", "start", "undefined", "undefined")))
                    /\ input' = input
                    /\ lastAct' = Act("handleSendMessage", "start", 0)
               ELSE IF analysisId = Null
               THEN /\ input' = <<>>
                    /\ inflight' = inflight
                    /\ lastAct' = Act("handleSendMessage", "noAnalysisId", 0)
               ELSE /\ inflight' = Append(inflight,
                            Pending("userFeedback", "send", 0,
                                    Command(analysisId, "feedback", input, "undefined")))
                    /\ input' = input
                    /\ lastAct' = Act("handleSendMessage", "feedback", 0)
            /\ UNCHANGED <<isConnected, analysisResults, analysisId, workflowStatus, wsState, wsSent,
                           decided>>

\* the header's Start Analysis button, lines 299-308, calling handleStartAnalysis (189-191)
StartButton ==
    /\ UNCHANGED <<segVars, progVars, connVars>>
    /\ workflowStatus.status \in {"undefined", "draft", "pending"}
    /\ Room(1)
    /\ inflight' = Append(inflight,
            Pending("start", "button", 0, Command("case", "start", "undefined", "undefined")))
    /\ lastAct' = Act("handleStartAnalysis", "sent", 0)
    /\ UNCHANGED <<messages, input, isConnected, analysisResults, analysisId,
                   workflowStatus, wsState, wsSent, fb, decided>>

\* variation: the three buttons are rendered whatever the status
ControlShown_Always(action) == TRUE

\* which control buttons are rendered, lines 310-341
ControlShown(action) ==
    CASE action = "pause" -> workflowStatus.status = "in_progress"
      [] action = "resume" -> workflowStatus.status = "paused"
      [] OTHER -> workflowStatus.status \in {"in_progress", "paused"}

\* handleWorkflowControl up to its await, lines 224-235
handleWorkflowControl(action) ==
    /\ UNCHANGED <<segVars, progVars, connVars>>
    /\ ControlShown(action)
    /\ IF analysisId = Null
       THEN /\ lastAct' = Act("handleWorkflowControl", "noAnalysisId", 0)
            /\ UNCHANGED chatVars
       ELSE /\ Room(1)
            /\ inflight' = Append(inflight,
                    Pending("control", "button", 0,
                            Command(analysisId, action, "undefined", "undefined")))
            /\ lastAct' = Act("handleWorkflowControl", "sent", 0)
            /\ UNCHANGED <<messages, input, isConnected, analysisResults, analysisId,
                           workflowStatus, wsState, wsSent, fb, decided>>

\* handleFeedbackSubmit up to its await, lines 250-263, entered from the
\* FeedbackButtons of message i (feedback-buttons.tsx lines 25-27 / 40-42)
SubmitFeedback(i, feedback, approved, via) ==
    IF analysisId = Null
    THEN /\ fb' = IF via = "modify" THEN [fb EXCEPT ![i] = DefaultFB] ELSE fb
         /\ lastAct' = Act(via, "noAnalysisId", i)
         /\ UNCHANGED <<inflight, decided>>
    ELSE /\ Room(1)
         /\ fb' = [fb EXCEPT ![i].isSubmitting = TRUE]
         /\ inflight' = Append(inflight,
                Pending("feedbackSubmit", via, i,
                        FeedbackCommand(analysisId, feedback, approved)))
         /\ decided' = decided \cup {i}
         /\ lastAct' = Act(via, "sent", i)

\* handleApprove, feedback-buttons.tsx lines 24-31 (button: lines 118-126)
handleApprove(i) ==
    /\ UNCHANGED <<segVars, progVars, connVars>>
    /\ i \in 1..Len(messages)
    /\ IsGate(messages[i])
    /\ fb[i].feedbackMode = "buttons"
    /\ ~fb[i].isSubmitting
    /\ SubmitFeedback(i, <<"Plan approved">>, TRUE, "approve")
    /\ UNCHANGED <<messages, input, isConnected, analysisResults, analysisId,
                   workflowStatus, wsState, wsSent>>

\* handleModify, lines 33-35 (button: lines 128-137)
handleModify(i) ==
    /\ UNCHANGED <<segVars, progVars, connVars>>
    /\ i \in 1..Len(messages)
    /\ IsGate(messages[i])
    /\ fb[i].feedbackMode = "buttons"
    /\ ~fb[i].isSubmitting
    /\ fb' = [fb EXCEPT ![i].feedbackMode = "text"]
    /\ lastAct' = Act("other", "other", 0)
    /\ UNCHANGED <<messages, input, isConnected, analysisResults, analysisId,
                   workflowStatus, wsState, wsSent, inflight, decided>>

\* onChange of the feedback Textarea, lines 57-63
SetFeedbackText(i, t) ==
    /\ UNCHANGED <<segVars, progVars, connVars>>
    /\ i \in 1..Len(messages)
    /\ IsGate(messages[i])
    /\ fb[i].feedbackMode = "text"
    /\ t # fb[i].feedbackText
    /\ fb' = [fb EXCEPT ![i].feedbackText = t]
    /\ lastAct' = Act("other", "other", 0)
    /\ UNCHANGED <<messages, input, isConnected, analysisResults, analysisId,
                   workflowStatus, wsState, wsSent, inflight, decided>>

\* the Cancel button, lines 73-82
CancelFeedback(i) ==
    /\ UNCHANGED <<segVars, progVars, connVars>>
    /\ i \in 1..Len(messages)
    /\ IsGate(messages[i])
    /\ fb[i].feedbackMode = "text"
    /\ fb' = [fb EXCEPT ![i].feedbackMode = "buttons", ![i].feedbackText = <<>>]
    /\ lastAct' = Act("other", "other", 0)
    /\ UNCHANGED <<messages, input, isConnected, analysisResults, analysisId,
                   workflowStatus, wsState, wsSent, inflight, decided>>

\* handleSubmitFeedback, lines 37-48: an attempt to submit the feedback box
\* (the button is disabled for blank text or while submitting, lines 66-72)
handleSubmitFeedback(i) ==
    /\ UNCHANGED <<segVars, progVars, connVars>>
    /\ i \in 1..Len(messages)
    /\ IsGate(messages[i])
    /\ fb[i].feedbackMode = "text"
    /\ ~fb[i].isSubmitting
    /\ IF ~Truthy(Trim(fb[i].feedbackText))
       THEN /\ lastAct' = Act("modify", "rejected", i)
            /\ UNCHANGED chatVars
       ELSE /\ SubmitFeedback(i, fb[i].feedbackText, FALSE, "modify")
            /\ UNCHANGED <<messages, input, isConnected, analysisResults, analysisId,
                           workflowStatus, wsState, wsSent>>

\* ---------------------------------------------------------------- after the await
\* lines 193-200, 237-244, 265-272: the confirmation appended when the mutation resolved
Confirmation(p) ==
    CASE p.kind = "start" -> <<"Starting legal analysis...">>
      [] p.kind = "control" -> <<"Workflow", p.cmd.action, "ed.">>
      [] p.kind = "feedbackSubmit" ->
            IF p.cmd.approve = "true" THEN <<"Plan approved. Continuing analysis...">>
            ELSE <<"Feedback provided. Regenerating plan...">>
      [] OTHER -> <<>>

\* variation: the confirmation follows the await whether it resolved or rejected
AppendsConfirmation_Regardless(p, ok) == p.kind # "userFeedback"
\* handleUserFeedback appends nothing (lines 206-222); the others confirm on success only
AppendsConfirmation(p, ok) == ok /\ p.kind # "userFeedback"

\* FeedbackButtons after `await onFeedback(...)`: lines 28-30 (approve), 43-47 (modify)
FbAfterSettle(oldFb, p) ==
    IF p.kind # "feedbackSubmit" THEN oldFb
    ELSE IF p.via = "modify" THEN [oldFb EXCEPT ![p.src] = DefaultFB]
    ELSE [oldFb EXCEPT ![p.src].isSubmitting = FALSE]

\* the mutation of suspended handler k resolves (ok) or rejects, and the handler
\* runs to its end: try/catch of lines 190-203, 225-247, 251-275; line 186
Settle(k, ok) ==
    /\ UNCHANGED <<segVars, progVars, connVars>>
    /\ k \in 1..Len(inflight)
    /\ LET p == inflight[k] IN
         /\ inflight' = RemoveAt(inflight, k)
         /\ messages' = IF AppendsConfirmation(p, ok)
                        THEN AppendMessage(messages, SystemMessage(Confirmation(p)))
                        ELSE messages
         /\ fb' = FbFor(messages', FbAfterSettle(fb, p))
         /\ input' = IF p.via = "send" THEN <<>> ELSE input
         /\ lastAct' = Act(IF p.via = "send" THEN "settleSend" ELSE "settle",
                            IF ok THEN p.kind ELSE "failed", p.src)
    /\ UNCHANGED <<isConnected, analysisResults, analysisId, workflowStatus, wsState, wsSent, decided>>

\* ---------------------------------------------------------------- server-side data
\* useAnalysisWorkflow(caseId).data: undefined until the query has data, then the
\* status the backend reports for the case
NoWorkflow == [status |-> "undefined", feedback_requested |-> FALSE]

WorkflowValues ==
    { [status |-> "in_progress", feedback_requested |-> TRUE],
      [status |-> "paused", feedback_requested |-> FALSE],
      [status |-> "completed", feedback_requested |-> FALSE] }

\* the workflow query refetches
RefetchWorkflow(w) ==
    /\ UNCHANGED <<segVars, progVars, connVars>>
    /\ w # workflowStatus
    /\ workflowStatus' = w
    /\ lastAct' = Act("other", "other", 0)
    /\ UNCHANGED <<messages, input, isConnected, analysisResults, analysisId, wsState, wsSent, fb,
                   inflight, decided>>

\* the case query refetches and now lists an analysis
RefetchCase ==
    /\ UNCHANGED <<segVars, progVars, connVars>>
    /\ analysisId = Null
    /\ analysisId' = "analysis-1"
    /\ lastAct' = Act("other", "other", 0)
    /\ UNCHANGED <<messages, input, isConnected, analysisResults, workflowStatus, wsState, wsSent, fb,
                   inflight, decided>>

\* ================================================================ progress figures
MaxCats == 3        \* categories in the plan

CatNames == {"A", "B", "C"}

\* a status the backend may report for a category; "none": no progress row / no status
CatStatuses == {"none", "pending", "in_progress", "completed"}

\* a number as JavaScript computes it: NaN, or the value in hundredths
Num(v) == [nan |-> FALSE, val |-> v]

NaN == [nan |-> TRUE, val |-> 0]

\* (a / b) * 100 in hundredths, rounded to the nearest; 0 / 0 is NaN
Percent(a, b) == IF b = 0 THEN NaN ELSE Num((a * 10000 * 2 + b) \div (2 * b))

\* Math.round of a value held in hundredths; Math.round(NaN) is NaN
MathRound(x) == IF x.nan THEN NaN ELSE Num(((x.val + 50) \div 100) * 100)

\* the progress prop: the rows the backend holds, one per category with a status
ProgressRows(p) == SelectSeq([i \in 1..Len(p) |-> [category_name |-> p[i].name,
                                                   status |-> p[i].status]],
                            LAMBDA row : row.status # "none")

\* Array.prototype.filter(...).length
CountCompleted(rows) == Cardinality({ i \in 1..Len(rows) : rows[i].status = "completed" })

\* CategoryProgress, src/unnamed/part_006 lines 57-59
progressPercentage(categories, progress) ==
    IF Len(categories) > 0 THEN Percent(CountCompleted(progress), Len(categories))
    ELSE Num(0)

\* ThinkingSteps, thinking-steps.tsx lines 80-87: category.status || 'pending'
ThinkingStepsOf(categories) ==
    [i \in 1..Len(categories) |->
        [title |-> categories[i].name,
         status |-> IF categories[i].status = "none" THEN "pending"
                    ELSE categories[i].status]]

\* ThinkingSteps, lines 200 and 207: the label is rounded, the bar width is not
overallWidth(thinkingSteps) == Percent(CountCompleted(thinkingSteps), Len(thinkingSteps))

overallLabel(thinkingSteps) == MathRound(overallWidth(thinkingSteps))

NoView == [shown |-> FALSE, completedCount |-> 0, totalCount |-> 0,
           progressPercentage |-> Num(0), overallWidth |-> Num(0), overallLabel |-> Num(0)]

\* one render of CategoryProgress and of ThinkingSteps on the same categories
ViewOf(p) ==
    [shown |-> TRUE,
     completedCount |-> CountCompleted(ProgressRows(p)),
     totalCount |-> Len(p),
     progressPercentage |-> progressPercentage(p, ProgressRows(p)),
     overallWidth |-> overallWidth(ThinkingStepsOf(p)),
     overallLabel |-> overallLabel(ThinkingStepsOf(p))]

ProgIdle == plan = <<>> /\ pgView = NoView

\* the components mount and render
RenderProgress ==
    /\ UNCHANGED <<segVars, chatVars, connVars>>
    /\ ~pgView.shown
    /\ pgView' = ViewOf(plan)
    /\ plan' = plan
    /\ lastAct' = Act("render", "progress", 0)

\* the case query refetches with a new status for category i; both re-render
RefetchCategory(i, st) ==
    /\ UNCHANGED <<segVars, chatVars, connVars>>
    /\ pgView.shown
    /\ i \in 1..Len(plan)
    /\ st # plan[i].status
    /\ plan' = [plan EXCEPT ![i].status = st]
    /\ pgView' = ViewOf(plan')
    /\ lastAct' = Act("render", "refetch", i)

\* ---------------------------------------------------------------- side panel
\* chat-interface.tsx line 450: the categories prop of the side panel's
\* CategoryProgress (names): analysisResults?.completed_categories || caseData's
CaseCategoryNames(p) == [i \in 1..Len(p) |-> p[i].name]

PanelCategories == IF analysisResults.present THEN analysisResults.completed_categories
                   ELSE CaseCategoryNames(plan)

\* lines 451-458: the progress prop; the rows built from analysisResults carry
\* the key `category`, so their category_name is undefined
PanelProgress ==
    IF analysisResults.present
    THEN [i \in 1..Len(analysisResults.completed_categories) |->
             [category_name |-> "undefined", status |-> "completed"]]
    ELSE ProgressRows(plan)

\* part_006 lines 27-29: Array.prototype.find, undefined when no row matches
getProgressForCategory(progress, categoryName) ==
    IF \E i \in 1..Len(progress) : progress[i].category_name = categoryName
    THEN progress[CHOOSE i \in 1..Len(progress) :
                     /\ progress[i].category_name = categoryName
                     /\ \A j \in 1..(i - 1) : progress[j].category_name # categoryName]
    ELSE [category_name |-> "undefined", status |-> "undefined"]

\* part_006 lines 73-74: categoryProgress?.status || 'pending'
RowStatus(progress, categoryName) ==
    IF getProgressForCategory(progress, categoryName).status = "undefined" THEN "pending"
    ELSE getProgressForCategory(progress, categoryName).status

\* the status the side panel shows for a category it lists
PanelStatus(categoryName) == RowStatus(PanelProgress, categoryName)

\* the case query refetches: the backend reports a new status for category i
RefetchCaseProgress(i, st) ==
    /\ UNCHANGED <<segVars, chatVars, connVars, pgView>>
    /\ i \in 1..Len(plan)
    /\ st # plan[i].status
    /\ plan' = [plan EXCEPT ![i].status = st]
    /\ lastAct' = Act("other", "other", 0)

\* ================================================================ specifications
\* the chat view is not mounted
ChatIdle ==
    /\ messages = <<>>
    /\ input = <<>>
    /\ isConnected = FALSE
    /\ analysisResults = NoResults
    /\ analysisId = Null
    /\ workflowStatus = NoWorkflow
    /\ wsState = "closed"
    /\ wsSent = <<>>
    /\ closing = 0
    /\ fb = <<>>
    /\ inflight = <<>>
    /\ decided = {}

InitSeg ==
    /\ variant \in {"first", "tree"}
    /\ caseBackground = <<>>
    /\ isRunning = FALSE
    /\ error = Null
    /\ finalResult = Null
    /\ steps = <<>>
    /\ initialAgentResponse = <<>>
    /\ active = 0
    /\ nEvents = 0
    /\ termSeen = FALSE
    /\ fedLog = <<>>
    /\ ChatIdle
    /\ ProgIdle
    /\ lastAct = Act("init", "init", 0)

NextSeg ==
    \/ \E t \in CaseTexts : SetCaseBackground(t)
    \/ \E valid \in BOOLEAN : HandleSubmit(valid)
    \/ \E m \in SegEvents : StreamMessage(m)
    \/ StreamEnd
    \/ StreamThrow
    \/ HandleReset

Spec == InitSeg /\ [][NextSeg]_vars

\* ---------------------------------------------------------------- phase-segmentation scenario
\* The fixed event list [A, B("Round 1: ..."), C("Round 1: ..."), D("Round 2: ..."),
\* E(complete)]: the k-th message fed is drawn from ScenarioChoices(k), which leaves
\* open only what the list leaves open (A's type and the elided texts).
Scenario ==
    << { Msg(t, x) : t \in {"insight", "search", "discovery", "browsing"},
                     x \in {Note, Note2} },
       { Msg("research_progress", Round1a), Msg("research_progress", Round1b) },
       { Msg("research_progress", Round1a), Msg("research_progress", Round1b) },
       { Msg("research_progress", Round2a), Msg("research_progress", Round2b) },
       { Msg("complete", Note), Msg("complete", Note2) } >>

ScenarioLen == Len(Scenario)

ScenarioChoices(k) == Scenario[k]

\* the user types the case background and starts the run
ScenarioStart ==
    /\ fedLog = <<>>
    /\ active = 0
    /\ \/ SetCaseBackground(<<"facts">>)
       \/ HandleSubmit(TRUE)

\* the stream delivers the next message of the list
ScenarioFeed ==
    /\ UNCHANGED <<chatVars, progVars, connVars>>
    /\ active = 1
    /\ Len(fedLog) < ScenarioLen
    /\ \E m \in ScenarioChoices(Len(fedLog) + 1) :
          /\ processStream(m)
          /\ fedLog' = Append(fedLog, m)
    /\ UNCHANGED <<variant, caseBackground, active, nEvents>>

NextScenario == ScenarioStart \/ ScenarioFeed

SpecScenario == InitSeg /\ [][NextScenario]_vars

SegIdle ==
    /\ variant = "tree"
    /\ caseBackground = <<>>
    /\ isRunning = FALSE
    /\ error = Null
    /\ finalResult = Null
    /\ steps = <<>>
    /\ initialAgentResponse = <<>>
    /\ active = 0
    /\ nEvents = 0
    /\ termSeen = FALSE
    /\ fedLog = <<>>

\* ChatInterface mounted: the effect has created the WebSocket (lines 53-55)
InitChat ==
    /\ SegIdle
    /\ ProgIdle
    /\ messages = <<>>
    /\ input = <<>>
    /\ isConnected = FALSE
    /\ analysisResults = NoResults
    /\ analysisId \in {Null, "analysis-1"}
    /\ workflowStatus = NoWorkflow
    /\ wsState = "connecting"
    /\ wsSent = <<>>
    /\ closing = 0
    /\ fb = <<>>
    /\ inflight = <<>>
    /\ decided = {}
    /\ lastAct = Act("init", "init", 0)

\* the chat view: transcript, feedback buttons and the chat input, with the
\* workflow query not yet answered
NextChat ==
    \/ WsOpen
    \/ \E update \in ChatEvents : WsMessage(update)
    \/ WsClose
    \/ \E t \in InputTexts : SetInput(t)
    \/ handleSendMessage
    \/ StartButton
    \/ \E i \in 1..MaxMessages : handleApprove(i)
    \/ \E i \in 1..MaxMessages : handleModify(i)
    \/ \E i \in 1..MaxMessages, t \in FbTexts : SetFeedbackText(i, t)
    \/ \E i \in 1..MaxMessages : CancelFeedback(i)
    \/ \E i \in 1..MaxMessages : handleSubmitFeedback(i)
    \/ \E k \in 1..MaxMessages, ok \in BOOLEAN : Settle(k, ok)
    \/ RefetchCase

SpecChat == InitChat /\ [][NextChat]_vars

\* the updates that bear on the workflow status
ControlEvents == { update \in ChatEvents :
                     update.type \in {"feedback_requested", "progress_update",
                                      "analysis_completed", "error"} }

\* the chat view with the workflow query answering: status, control buttons and
\* the feedback gate
NextControl ==
    \/ WsOpen
    \/ \E update \in ControlEvents : WsMessage(update)
    \/ WsClose
    \/ StartButton
    \/ \E action \in {"pause", "resume", "stop"} : handleWorkflowControl(action)
    \/ \E i \in 1..MaxMessages : handleApprove(i)
    \/ \E k \in 1..MaxMessages, ok \in BOOLEAN : Settle(k, ok)
    \/ \E w \in WorkflowValues : RefetchWorkflow(w)
    \/ RefetchCase

SpecControl == InitChat /\ [][NextControl]_vars

\* the plans whose categories have distinct names
Plans ==
    { p \in UNION { [1..n -> [name : CatNames, status : CatStatuses]] : n \in 0..MaxCats } :
        \A i, j \in 1..Len(p) : p[i].name = p[j].name => i = j }

InitProgress ==
    /\ SegIdle
    /\ ChatIdle
    /\ plan \in Plans
    /\ pgView = NoView
    /\ lastAct = Act("init", "init", 0)

NextProgress ==
    \/ RenderProgress
    \/ \E i \in 1..MaxCats, st \in CatStatuses : RefetchCategory(i, st)

SpecProgress == InitProgress /\ [][NextProgress]_vars

\* the chat view with every handler that writes the transcript
NextTranscript ==
    \/ NextControl
    \/ \E t \in InputTexts : SetInput(t)
    \/ handleSendMessage
    \/ \E i \in 1..MaxMessages : handleModify(i)
    \/ \E i \in 1..MaxMessages, t \in FbTexts : SetFeedbackText(i, t)
    \/ \E i \in 1..MaxMessages : handleSubmitFeedback(i)

SpecTranscript == InitChat /\ [][NextTranscript]_vars

\* the chat view's socket alone: frames arrive, parseable or not
NextFrames ==
    \/ WsOpen
    \/ \E update \in ChatEvents : WsMessage(update)
    \/ WsBadFrame
    \/ WsClose

SpecFrames == InitChat /\ [][NextFrames]_vars

\* the updates that bear on the categories
PanelEvents ==
    { Upd("plan_generated", <<>>, <<>>, "2", <<>>, <<>>, Null),
      Upd("category_completed", <<>>, <<"A">>, "undefined", <<>>, <<>>, Null),
      Upd("category_completed", <<>>, <<"B", "C">>, "undefined", <<>>, <<>>, Null),
      Upd("analysis_completed", <<>>, <<>>, "undefined", <<"final", "text">>, <<"A", "B">>, Null) }

\* ChatInterface mounted on a case whose data lists the categories of plan
InitPanel ==
    /\ SegIdle
    /\ messages = <<>>
    /\ input = <<>>
    /\ isConnected = FALSE
    /\ analysisResults = NoResults
    /\ analysisId = "analysis-1"
    /\ workflowStatus = NoWorkflow
    /\ wsState = "connecting"
    /\ wsSent = <<>>
    /\ closing = 0
    /\ fb = <<>>
    /\ inflight = <<>>
    /\ decided = {}
    /\ plan \in Plans
    /\ pgView = NoView
    /\ lastAct = Act("init", "init", 0)

\* the chat view's side panel: updates arrive, the case query refetches
NextPanel ==
    \/ WsOpen
    \/ \E update \in PanelEvents : WsMessage(update)
    \/ WsClose
    \/ \E i \in 1..MaxCats, st \in CatStatuses : RefetchCaseProgress(i, st)

SpecPanel == InitPanel /\ [][NextPanel]_vars

\* the chat view's connection with the effect running again
NextRemount ==
    \/ WsOpen
    \/ \E update \in ControlEvents : WsMessage(update)
    \/ WsClose
    \/ EffectRerun
    \/ StaleClose

SpecRemount == InitChat /\ [][NextRemount]_vars
\* ================================================================ claims
StepTitles == [i \in 1..Len(steps) |-> steps[i].title]

\* the status the step tree shows for the run: that of its current (last) step
CurrentStatus == IF HasCurrent(steps) THEN CurrentStep(steps).status ELSE "none"

ScenarioDone == Len(fedLog) = ScenarioLen

TextInSubSteps(step, text) == \E i \in 1..Len(step.substeps) : step.substeps[i].text = text

\* C2 as stated: the list yields exactly 3 steps and B's text is no substep of
\* the step B created (the second step)
C2_Original ==
    ScenarioDone =>
        /\ Len(steps) = 3
        /\ ~TextInSubSteps(steps[2], fedLog[2].message)

\* C2 amended: the tree variant yields 2 steps (all Round events share the
\* Research Phase step), the first variant 4 (one step per Round event); B is
\* consumed by the creation of its step, whose substeps hold B's text only when
\* the later message C carries the identical text and is appended to that step.
C2_ScenarioSteps ==
    /\ (variant = "tree" /\ Len(fedLog) >= 2) =>
           /\ Len(steps) = 2
           /\ StepTitles = << <<"Investigation Phase">>, <<"Research Phase">> >>
           /\ Len(steps[2].substeps) <= Len(fedLog) - 2
           /\ TextInSubSteps(steps[2], fedLog[2].message)
                 <=> (Len(fedLog) >= 3 /\ fedLog[3].message = fedLog[2].message)
    /\ (variant = "first" /\ ScenarioDone) =>
           /\ Len(steps) = 4
           /\ steps[2].substeps = <<>>
    /\ ScenarioDone => CurrentStatus = "completed"

\* witness C2: the whole list has been fed to the tree variant
C2_Witness ==
    /\ ScenarioDone
    /\ variant = "tree"
    /\ Len(steps[2].substeps) = 3

\* C3 as stated: once a complete or error message has been processed, no later
\* message of the run changes the status shown for the run
C3_TerminalMonotonic ==
    [][(termSeen /\ \E m \in SegEvents : StreamMessage(m))
          => CurrentStatus' = CurrentStatus]_vars

\* ---------------------------------------------------------------- chat view
\* a message rendering FeedbackButtons is in the transcript
GateShown == \E i \in 1..Len(messages) : IsGate(messages[i])

\* C4: while FeedbackButtons are shown for a feedback_requested message, a
\* progress_update leaves the workflow status the view holds, every feedback
\* message, its buttons' state and the pending feedback decisions as they were.
C4_GateFreezesProgress ==
    [][(GateShown /\ \E update \in ControlEvents :
                        update.type = "progress_update" /\ WsMessage(update))
          => /\ workflowStatus' = workflowStatus
             /\ inflight' = inflight
             /\ decided' = decided
             /\ \A i \in 1..Len(messages) :
                    IsGate(messages[i]) =>
                        /\ i <= Len(messages')
                        /\ messages'[i] = messages[i]
                        /\ fb'[i] = fb[i]]_vars

\* witness C4: a progress_update with text was appended after an undecided
\* feedback request while the backend reports feedback_requested
C4_Witness ==
    /\ Len(messages) = 2
    /\ IsGate(messages[1])
    /\ messages[2].metadata.type = "progress_update"
    /\ lastAct = Act("handleWorkflowUpdate", "progress_update", 0)
    /\ workflowStatus.feedback_requested
    /\ 1 \notin decided

\* a feedback decision is issued from the FeedbackButtons of message i in this step
DecisionIssued(i) ==
    /\ Len(inflight') = Len(inflight) + 1
    /\ inflight'[Len(inflight')].kind = "feedbackSubmit"
    /\ inflight'[Len(inflight')].src = i

\* C5 as stated: once approve or modify has been issued for a feedback request,
\* no further approve or modify is issued for that request
C5_GateClosesOnDecision ==
    [][\A i \in decided : ~DecisionIssued(i)]_vars

\* C6 as stated: at most one feedback gate is shown at any time
C6_SingleGate ==
    Cardinality({ i \in 1..Len(messages) : IsGate(messages[i]) }) <= 1

\* exactly one mutation is issued in this step, a feedback command for the
\* FeedbackButtons of message i with the given text and approve flag
OneFeedbackCommand(i, feedback, approve) ==
    /\ Len(inflight') = Len(inflight) + 1
    /\ SubSeq(inflight', 1, Len(inflight)) = inflight
    /\ inflight'[Len(inflight')].src = i
    /\ inflight'[Len(inflight')].cmd.action = "feedback"
    /\ inflight'[Len(inflight')].cmd.feedback = feedback
    /\ inflight'[Len(inflight')].cmd.approve = approve

IsBlankText(text) == \A k \in 1..Len(text) : text[k] = Blank

\* C7 as stated: every approve issues one feedback command with approve = true,
\* every modify with text one feedback command with that text and approve = false
C7_Original ==
    [][\A i \in 1..MaxMessages :
          /\ handleApprove(i) => OneFeedbackCommand(i, <<"Plan approved">>, "true")
          /\ (handleSubmitFeedback(i) /\ ~IsBlankText(fb[i].feedbackText))
                => OneFeedbackCommand(i, fb[i].feedbackText, "false")]_vars

\* C7 amended: that holds when the case data names an analysis, whose id the
\* command carries; when it names none, approve and modify issue no command.
C7_FeedbackCommand ==
    [][\A i \in 1..MaxMessages :
          /\ handleApprove(i) =>
                IF analysisId # Null
                THEN /\ OneFeedbackCommand(i, <<"Plan approved">>, "true")
                     /\ inflight'[Len(inflight')].cmd.caseId = analysisId
                ELSE inflight' = inflight
          /\ (handleSubmitFeedback(i) /\ ~IsBlankText(fb[i].feedbackText)) =>
                IF analysisId # Null
                THEN /\ OneFeedbackCommand(i, fb[i].feedbackText, "false")
                     /\ inflight'[Len(inflight')].cmd.caseId = analysisId
                ELSE inflight' = inflight]_vars

\* witness C7: the feedback box of message 1 has just submitted the user's text
C7_Witness ==
    /\ lastAct = Act("modify", "sent", 1)
    /\ Len(inflight) = 1
    /\ inflight[1].cmd = Command("analysis-1", "feedback", <<"narrow", "scope">>, "false")
    /\ fb[1].isSubmitting

\* C8: submitting blank (empty or whitespace-only) text through the chat input
\* or a feedback box changes nothing: no command, no message, same input state.
C8_BlankInputRejected ==
    [][/\ (handleSendMessage /\ IsBlankText(input)) => UNCHANGED chatVars
       /\ \A i \in 1..MaxMessages :
             (handleSubmitFeedback(i) /\ IsBlankText(fb[i].feedbackText))
                => UNCHANGED chatVars]_vars

\* witness C8: a whitespace-only chat input has just been submitted and rejected
\* while a feedback box holds whitespace-only text
C8_Witness ==
    /\ lastAct = Act("handleSendMessage", "rejected", 0)
    /\ input = <<Blank>>
    /\ \E i \in 1..Len(messages) :
          IsGate(messages[i]) /\ fb[i].feedbackMode = "text" /\ fb[i].feedbackText = <<Blank>>

AssistantCount == Cardinality({ i \in 1..Len(messages) : messages[i].type = "assistant" })

PlanCompleted == Cardinality({ i \in 1..Len(plan) : plan[i].status = "completed" })

\* v is (a / b) * 100 in hundredths, to the nearest hundredth
IsPercentOf(v, a, b) == ~v.nan /\ 2 * v.val * b - 2 * a * 10000 \in (0 - b)..b

\* C9 as stated: the percentage shown is completed / total * 100, 0 when there
\* are no categories, and 66.67 with 2 completed for [A, B, C] with A, B completed
C9_ProgressPercentage ==
    pgView.shown =>
        /\ pgView.completedCount = PlanCompleted
        /\ IF Len(plan) = 0
           THEN pgView.progressPercentage = Num(0) /\ pgView.overallWidth = Num(0)
           ELSE /\ IsPercentOf(pgView.progressPercentage, PlanCompleted, Len(plan))
                /\ IsPercentOf(pgView.overallWidth, PlanCompleted, Len(plan))
        /\ (Len(plan) = 3 /\ PlanCompleted = 2) => pgView.progressPercentage = Num(6667)

\* the same for CategoryProgress alone, which guards the empty plan
C9_CategoryProgressOnly ==
    pgView.shown =>
        /\ pgView.completedCount = PlanCompleted
        /\ IF Len(plan) = 0 THEN pgView.progressPercentage = Num(0)
           ELSE IsPercentOf(pgView.progressPercentage, PlanCompleted, Len(plan))
        /\ (Len(plan) = 3 /\ PlanCompleted = 2) => pgView.progressPercentage = Num(6667)

\* ---------------------------------------------------------------- side panel
InSeq(x, seq) == \E k \in 1..Len(seq) : seq[k] = x

\* C11 as stated: processing category_completed makes every named category the
\* panel lists show completed and leaves the others as they were, and after
\* plan_generated every listed category shows pending
C11_CategoryCompleted ==
    [][\A update \in PanelEvents :
          WsMessage(update) =>
             /\ update.type = "category_completed" =>
                   \A n \in CatNames :
                      InSeq(n, PanelCategories) =>
                         IF InSeq(n, update.categories)
                         THEN PanelStatus(n)' = "completed"
                         ELSE PanelStatus(n)' = PanelStatus(n)
             /\ update.type = "plan_generated" =>
                   \A n \in CatNames :
                      InSeq(n, PanelCategories) => PanelStatus(n)' = "pending"]_vars

\* ---------------------------------------------------------------- transcript
\* the earlier transcript is a prefix of the one after the step
KeepsTranscript == /\ Len(messages') >= Len(messages)
                   /\ SubSeq(messages', 1, Len(messages)) = messages

\* the user message of a handleSendMessage call that is suspended in its await
HasUserMessageOf(p) ==
    \E i \in 1..Len(messages) :
        /\ messages[i].type = "user"
        /\ IF p.kind = "userFeedback" THEN messages[i].content = p.cmd.feedback
           ELSE IsStartRequest(messages[i].content)

\* C12: sending non-blank text appends a user message with that text in the
\* step that issues the command (if any); while the command is pending and when
\* it resolves or rejects, that message is still in the transcript.
C12_UserMessageFirst ==
    /\ [](\A k \in 1..Len(inflight) : inflight[k].via = "send" => HasUserMessageOf(inflight[k]))
    /\ [][/\ (handleSendMessage /\ ~IsBlankText(input)) =>
               /\ messages' = Append(messages, messages'[Len(messages')])
               /\ messages'[Len(messages')].type = "user"
               /\ messages'[Len(messages')].content = input
               /\ Len(inflight') <= Len(inflight) + 1
          /\ \A k \in 1..Len(inflight), ok \in BOOLEAN :
               (Settle(k, ok) /\ inflight[k].via = "send") => KeepsTranscript]_vars

\* witness C12: the feedback command of a sent text has just been rejected and
\* the user's message is in the transcript
C12_Witness ==
    /\ lastAct = Act("settleSend", "failed", 0)
    /\ Len(messages) = 1
    /\ messages[1].type = "user"
    /\ messages[1].content = <<"fix", Blank>>
    /\ inflight = <<>>

\* C13: an inbound update appends at most one message, after the transcript it
\* found, and a progress_update without a message leaves the transcript as it was.
C13_AtMostOneMessage ==
    [][\A update \in ChatEvents :
          WsMessage(update) =>
             /\ KeepsTranscript
             /\ Len(messages') <= Len(messages) + 1
             /\ (update.type = "progress_update" /\ update.message = <<>>)
                   => messages' = messages]_vars

\* witness C13: a progress_update has just been processed on an open socket and
\* the transcript is still empty: it was the one without a message
C13_Witness ==
    /\ lastAct = Act("handleWorkflowUpdate", "progress_update", 0)
    /\ wsState = "open"
    /\ messages = <<>>

\* C14: the transcript is append-only: every step of every handler leaves the
\* earlier transcript, with each message's role and content, as a prefix of the
\* new one.
C14_AppendOnly == [][KeepsTranscript]_vars

\* witness C14: a user message, then the confirmation of a workflow control
C14_Witness ==
    /\ Len(messages) = 2
    /\ messages[1].type = "user"
    /\ lastAct.op = "settle"
    /\ lastAct.out = "control"
    /\ messages[2].content[1] = "Workflow"

\* C15 as stated: a frame that cannot be parsed, or whose type is not one the
\* view recognises, changes no state of the chat view
C15_MalformedIgnored ==
    [][/\ WsBadFrame => UNCHANGED chatVars
       /\ \A update \in ChatEvents :
             (update.type \notin KnownTypes /\ WsMessage(update)) => UNCHANGED chatVars]_vars

\* ---------------------------------------------------------------- connection
\* the socket is open and its subscribe frame has been sent
Subscribed == wsState = "open" /\ wsSent # <<>>

\* a pause, resume, stop or feedback command is issued in this step
ControlCommandIssued ==
    /\ Len(inflight') = Len(inflight) + 1
    /\ inflight'[Len(inflight')].cmd.action \in {"pause", "resume", "stop", "feedback"}

\* C16 as stated: the subscribe frame is the first thing sent on the connection,
\* and no pause, resume, stop or feedback command is sent before the view is subscribed
C16_SubscribeFirst ==
    /\ [](wsSent # <<>> => wsSent[1].type = "subscribe_case")
    /\ [][ControlCommandIssued => Subscribed]_vars

\* C17: when the socket closes isConnected becomes false and no new connection
\* is attempted: the socket stays closed, nothing more is sent on it, and
\* isConnected stays false for the rest of the mount.
C17_NoReconnect ==
    /\ [](isConnected => wsState = "open")
    /\ [][/\ (isConnected /\ ~isConnected') => wsState' = "closed"
          /\ wsState = "closed" =>
                (wsState' = "closed" /\ ~isConnected' /\ wsSent' = wsSent)]_vars

\* witness C17: the socket was open (it subscribed), has closed, and the view
\* went on working disconnected
C17_Witness ==
    /\ wsState = "closed"
    /\ ~isConnected
    /\ Len(wsSent) = 1
    /\ lastAct.op = "handleSendMessage"

\* ---------------------------------------------------------------- workflow control
\* the statuses in which the lifecycle permits a command
Permits(status, action) ==
    \/ action = "pause" /\ status = "in_progress"
    \/ action = "resume" /\ status = "paused"
    \/ action = "stop" /\ status \in {"in_progress", "paused"}

NoCurrentStep == Len(steps) = 0

CurrentTitle == IF Len(steps) = 0 THEN <<>> ELSE steps[Len(steps)].title

\* a step is pushed in this step of the behaviour
StepCreated == Len(steps') = Len(steps) + 1

\* C19 as stated: a step is created exactly when (a) there is none, or (b) on a
\* research_progress with the Round marker when the title is not the research
\* title, or (c) on a progress_update / research_progress with the compiling
\* marker when the title is not the final-phase title
C19_Original ==
    [][\A m \in SegEvents :
          StreamMessage(m) =>
             (StepCreated <=>
                \/ NoCurrentStep
                \/ /\ m.type = "research_progress"
                   /\ Includes(m.message, "Round")
                   /\ CurrentTitle # <<"Research Phase">>
                \/ /\ m.type \in {"progress_update", "research_progress"}
                   /\ Includes(m.message, "Compiling")
                   /\ CurrentTitle # <<"Generating Deposition Outline">>)]_vars

\* C19 amended: agent_intro never creates a step; for any other message a step
\* is created exactly when (a) there is none, or (b) as stated, or (c) the
\* message has type final_strategy and contains "Compiling" and the title is not
\* the final-phase title.  The first variant of the component has no title
\* test in (b) and (c) and creates a step on agent_intro when there is none.
C19_StepCreation ==
    [][\A m \in SegEvents :
          StreamMessage(m) =>
             IF variant = "tree"
             THEN StepCreated <=>
                    /\ m.type # "agent_intro"
                    /\ \/ NoCurrentStep
                       \/ /\ m.type = "research_progress"
                          /\ Includes(m.message, "Round")
                          /\ CurrentTitle # <<"Research Phase">>
                       \/ /\ m.type = "final_strategy"
                          /\ Includes(m.message, "Compiling")
                          /\ CurrentTitle # <<"Generating Deposition Outline">>
             ELSE StepCreated <=>
                    \/ NoCurrentStep
                    \/ m.type = "research_progress" /\ Includes(m.message, "Round")
                    \/ m.type = "final_strategy" /\ Includes(m.message, "Compiling")]_vars

\* witness C19: the final-phase step has just been created after the research step
C19_Witness ==
    /\ variant = "tree"
    /\ lastAct = Act("processStream", "created", 0)
    /\ Len(steps) = 2
    /\ steps[1].title = <<"Research Phase">>
    /\ steps[2].title = <<"Generating Deposition Outline">>

SubStepsOf(stepList, n) == [i \in 1..n |-> stepList[i].substeps]

\* C21: a message that creates a step is consumed by the creation: the new
\* step starts with no substeps and the message is filed under no earlier
\* step; the step a submit opens also starts with no substeps.
C21_CreationConsumesEvent ==
    [][/\ \A m \in SegEvents :
             (StreamMessage(m) /\ StepCreated) =>
                /\ steps'[Len(steps')].substeps = <<>>
                /\ SubStepsOf(steps', Len(steps)) = SubStepsOf(steps, Len(steps))
       /\ HandleSubmit(TRUE) =>
             \A i \in 1..Len(steps') : steps'[i].substeps = <<>>]_vars

\* witness C21: a Round message has opened a second step behind a step that
\* already holds a substep
C21_Witness ==
    /\ lastAct = Act("processStream", "created", 0)
    /\ Len(steps) = 2
    /\ Len(steps[1].substeps) = 1
    /\ steps[2].substeps = <<>>

\* C22: when a message creates a step while a current step exists, the step
\* that was current gets status completed (error if the creating message is an
\* error message, which never creates a step behind an existing one).
C22_PreviousStepClosed ==
    [][\A m \in SegEvents :
          (StreamMessage(m) /\ StepCreated /\ ~NoCurrentStep) =>
             steps'[Len(steps)].status =
                IF m.type = "error" THEN "error" ELSE "completed"]_vars

\* witness C22: a second step has been opened and the first one is completed
C22_Witness ==
    /\ lastAct = Act("processStream", "created", 0)
    /\ Len(steps) = 2
    /\ steps[1].status = "completed"
    /\ steps[2].status = "running"

\* C23 as stated: after a complete or error message has been processed no
\* later message of the run creates a step.
C23_NoStepAfterTerminal ==
    [][(termSeen /\ \E m \in SegEvents : StreamMessage(m))
          => Len(steps') = Len(steps)]_vars

\* C24 as stated: an error message sets the current step's status to error,
\* and no later message of the run changes that status.
C24_ErrorSticks ==
    [][\A m \in SegEvents :
          StreamMessage(m) =>
             /\ (m.type = "error" => CurrentStatus' = "error")
             /\ (termSeen /\ CurrentStatus = "error") => CurrentStatus' = "error"]_vars

\* the tags of the WorkflowEvent union, and every type the component names
RecognizedTags ==
    { "plan_generated", "feedback_requested", "category_completed", "progress_update",
      "research_progress", "deposition_generated", "analysis_completed", "error",
      "agent_intro", "final_strategy", "complete",
      "search", "browsing", "insight", "discovery" }

\* C25 as stated: a message whose type is not a recognized tag never creates
\* a step, whether or not there is a current step.
C25_UnknownTagNoStep ==
    [][\A m \in SegEvents :
          (StreamMessage(m) /\ m.type \notin RecognizedTags) => ~StepCreated]_vars

\* the step list after the transition is the list before it, with at most one
\* step added at the end: the earlier steps keep their place, title and
\* substeps (only the last of them may gain a substep or change status)
StepsAppendOnly ==
    /\ Len(steps') \in {Len(steps), Len(steps) + 1}
    /\ \A i \in 1..Len(steps) : steps'[i].title = steps[i].title
    /\ \A i \in 1..(Len(steps) - 1) : steps'[i].substeps = steps[i].substeps

C28_SingleStream ==
    /\ active <= 1
    /\ lastAct = Act("handleReset", "reset", 0) => active = 0
    /\ lastAct = Act("handleSubmit", "started", 0) => active = 1

\* ---------------------------------------------------------------- confirmations
ConfirmationTexts ==
    { <<"Starting legal analysis...">>,
      <<"Plan approved. Continuing analysis...">>,
      <<"Feedback provided. Regenerating plan...">> }
    \cup { <<"Workflow", action, "ed.">> : action \in {"pause", "resume", "stop"} }

IsConfirmation(msg) == msg.type = "system" /\ msg.content \in ConfirmationTexts

\* the transition puts a confirmation at the end of the transcript
ConfirmationAppended ==
    /\ messages' # messages
    /\ Len(messages') > 0
    /\ IsConfirmation(messages'[Len(messages')])

\* the transition appends a confirmation, and it is the one of a command whose
\* mutation has just resolved
ConfirmsAccepted ==
    \E k \in 1..Len(inflight) :
        /\ Settle(k, TRUE)
        /\ inflight[k].kind \in {"start", "control", "feedbackSubmit"}
        /\ messages' = Append(messages, SystemMessage(Confirmation(inflight[k])))

\* a confirmation is appended only for an accepted command, and a rejected
\* command leaves the transcript as it was
ConfirmationFollowsAcceptance ==
    /\ ConfirmationAppended => ConfirmsAccepted
    /\ \A k \in 1..Len(inflight) : Settle(k, FALSE) => messages' = messages

\* a control or feedback command attempted with no analysis id sends nothing
\* and leaves the transcript as it was (the handlers concerned are the ones
\* that record these operations)
NoAnalysisIdSendsNothing ==
    (/\ analysisId = Null
     /\ lastAct'.op \in {"handleWorkflowControl", "approve", "modify"}
     /\ \/ \E action \in {"pause", "resume", "stop"} : handleWorkflowControl(action)
        \/ \E i \in 1..Len(messages) : handleApprove(i) \/ handleSubmitFeedback(i))
    => (inflight' = inflight /\ messages' = messages)

\* C29 as stated: a confirmation follows acceptance only, and with no analysis
\* id known none of the three commands (start included) is sent.
C29_Original ==
    [][/\ ConfirmationFollowsAcceptance
       /\ NoAnalysisIdSendsNothing
       /\ (analysisId = Null /\ (StartButton \/ handleSendMessage))
             => inflight' = inflight]_vars

\* C29 amended: a confirmation is appended only after its command was
\* accepted, a failed command appends none, and a control or feedback command
\* with no analysis id sends nothing and leaves the transcript unchanged; the
\* start command needs no analysis id and is sent with the case id.
C29_ConfirmationAfterAcceptance ==
    [][/\ ConfirmationFollowsAcceptance
       /\ NoAnalysisIdSendsNothing
       /\ StartButton =>
             /\ Len(inflight') = Len(inflight) + 1
             /\ inflight'[Len(inflight')].cmd.caseId = "case"
             /\ messages' = messages]_vars

\* witness C29: the pause command was accepted and its confirmation appended
C29_Witness ==
    /\ lastAct = Act("settle", "control", 0)
    /\ Len(messages) > 0
    /\ messages[Len(messages)] = SystemMessage(<<"Workflow", "pause", "ed.">>)

\* C30 as stated: once analysis_completed has stored N completed categories,
\* the side panel counts N of N completed and shows each of the N categories
\* with status completed.
C30_PanelConsistent ==
    analysisResults.present =>
        /\ CountCompleted(PanelProgress) = Len(PanelCategories)
        /\ \A i \in 1..Len(PanelCategories) :
              PanelStatus(PanelCategories[i]) = "completed"

\* C27 as stated: the indicator shows Connected exactly while the view's
\* current connection is open, also after the connection was replaced: a late
\* close event of the replaced connection does not leave it at Disconnected
\* while the replacement is open.
C27_IndicatorFollowsCurrentSocket ==
    isConnected <=> wsState = "open"

====
